---- MODULE Spec2Model ----
(***************************************************************************)
(* A model of the VMC sender of OpenSeeFaceGUI (src/vmc_sender.py).        *)
(*                                                                         *)
(* Numbers.  The sender computes with floats; the model computes with      *)
(* integers in fixed units, chosen so that every operation of the code is  *)
(* exact on the inputs of the model:                                       *)
(*   - blend-shape weights, blink and feature values: 1/One (One = 16,     *)
(*     the divisor the code normalises pixel offsets with);                *)
(*   - pixel offsets: pixels;                                              *)
(*   - translations: millimetres; bone positions: 1/PosUnit metres;        *)
(*   - euler angles: degrees; angles handed to euler_to_quaternion:        *)
(*     1/AngUnit degrees;                                                  *)
(*   - clock readings and the /VMC/Ext/T argument: clock ticks.            *)
(* A quaternion is kept as the term Quat(pitch, yaw, roll) of the angles   *)
(* euler_to_quaternion is applied to: its trigonometry is not evaluated.   *)
(*                                                                         *)
(* Optional values (Python's None) are sequences of length 0 or 1.         *)
(***************************************************************************)
EXTENDS Integers, Sequences, FiniteSets, TLC

VARIABLES
    start_time,  \* VMCSender.start_time: the clock reading at construction
    now,         \* the reading time.time() gives at this moment
    face,        \* the argument of the latest send_tracking_data call
    frame,       \* the messages that call handed to the UDP client, in order
    calls,       \* 0 before the first call, 1 after it
    prev_frame,  \* the messages of the call before the latest one
    raised,      \* whether the latest call ended with an exception
    ip,          \* VMCSender.ip
    port,        \* VMCSender.port; self.client is the UDP client of (ip, port)
    faces,       \* the list tracker.predict returned for the current video frame
    face_num,    \* the position in faces of the next face the loop sends
    frame_count, \* the number of video frames read so far
    pend,        \* per thread: the send_tracking_data call it is inside, if any
    log,         \* the send_tracking_data calls begun so far, in order
    wire,        \* the messages handed to the socket so far, each with its call
    preview_running,   \* gui.py: the flag the preview threads poll
    cap,               \* gui.py: the capture object of the preview, if any
    tracking_process,  \* gui.py: the handle of the tracking subprocess, if any
    start_btn,         \* gui.py: the state of the Start Tracking button
    stop_tracking_btn, \* gui.py: the state of the Stop Tracking button
    messagebox,        \* gui.py: the message box shown last, "" if none
    captures,          \* the cv2.VideoCapture objects created so far
    processes,         \* the subprocesses launched so far
    previews,          \* the preview threads started so far
    handler            \* the callback the GUI thread is inside, and where

\* the state of one send_tracking_data call seen as a whole
callvars == <<face, frame, calls, prev_frame, raised>>

\* the sender's destination, the tracking loop and the stream of messages
streamvars == <<ip, port, faces, face_num, frame_count, pend, log, wire>>

\* the globals and widgets of gui.py, its threads and its subprocesses
guivars ==
    <<preview_running, cap, tracking_process, start_btn, stop_tracking_btn,
      messagebox, captures, processes, previews, handler>>

\* everything the sender and the tracking loop own
sendervars == <<start_time, now, callvars, streamvars>>

vars == <<sendervars, guivars>>

-----------------------------------------------------------------------------
(* Optional values *)

None == <<>>

Some(v) == <<v>>

IsNone(o) == Len(o) = 0

Val(o) == o[1]

-----------------------------------------------------------------------------
(* Units and program constants *)

GazeCenter == 16

GazeScale == 16

One == GazeScale

PosUnit == 2 * 1000

AngUnit == 8 * 10

CalibrationState == 3

TrackingStatus == 1

MaxGazeX == 15

MaxGazeY == 10

Max(a, b) == IF a >= b THEN a ELSE b

Min(a, b) == IF a <= b THEN a ELSE b

-----------------------------------------------------------------------------
(* The OSC messages of the sender, one operator per send_* method *)

Msg(addr, args) == [addr |-> addr, args |-> args]

send_blend_shape(name, value) == Msg("/VMC/Ext/Blend/Val", <<name, value>>)

send_blend_shape_apply == Msg("/VMC/Ext/Blend/Apply", <<>>)

send_bone_transform(bone_name, px, py, pz, q) ==
    Msg("/VMC/Ext/Bone/Pos", <<bone_name, px, py, pz, q>>)

send_available(available, calibration_state, tracking_status) ==
    Msg("/VMC/Ext/OK", <<available, calibration_state, tracking_status>>)

send_time(time_val) == Msg("/VMC/Ext/T", <<time_val>>)

Quat(pitch, yaw, roll) == [pitch |-> pitch, yaw |-> yaw, roll |-> roll]

\* float('nan'): a value outside every range the model computes with
NaN == -(1000 * 1000)

\* x * num / den in floats: a NaN stays a NaN
Scale(x, num, den) == IF x = NaN THEN NaN ELSE (x * num) \div den

\* lines 76-95: every component is a sum of products with the sine or the
\* cosine of each half angle, so one NaN angle makes all four components NaN
euler_to_quaternion(pitch, yaw, roll) ==
    IF NaN \in { pitch, yaw, roll } THEN Quat(NaN, NaN, NaN) ELSE Quat(pitch, yaw, roll)

send_root_transform ==
    Msg("/VMC/Ext/Root/Pos", <<"root", 0, 0, 0, 0, 0, 0, 1>>)

-----------------------------------------------------------------------------
(* send_tracking_data, one operator per guarded block of the method *)

\* (offset - 16) / 16.0, in units of 1/One
NormGaze(offset) == ((offset - GazeCenter) * One) \div GazeScale

\* max(-1, min(1, g))
ClampGaze(g) == Max(-One, Min(One, g))

\* min(1.0, max(0.0, v))
Clamp01(v) == Min(One, Max(0, v))

\* GazeAngle without the clamp
GazeAngle_Unclamped(g, maxDeg) == (g * maxDeg * AngUnit) \div One

\* max(-1, min(1, g)) * 15 (or * 10) degrees, in units of 1/AngUnit degree
GazeAngle(g, maxDeg) == (ClampGaze(g) * maxDeg * AngUnit) \div One

\* HeadBones without the inversion of Y
HeadBones_YNotInverted(f) ==
    IF f.success /\ ~IsNone(f.euler)
    THEN LET pitch == Val(f.euler)[1]
             yaw == Val(f.euler)[2]
             roll == Val(f.euler)[3]
             tx == IF ~IsNone(f.translation)
                   THEN (Val(f.translation)[1] * PosUnit) \div 1000 ELSE 0
             ty == IF ~IsNone(f.translation)
                   THEN (Val(f.translation)[2] * PosUnit) \div 1000 ELSE 0
             tz == IF ~IsNone(f.translation)
                   THEN (Val(f.translation)[3] * PosUnit) \div 1000 ELSE 0
         IN  << send_bone_transform("Head", tx, ty, tz,
                    euler_to_quaternion(-pitch * AngUnit, -yaw * AngUnit, roll * AngUnit)),
                send_bone_transform("Neck", tx \div 2, ty \div 2, tz \div 2,
                    euler_to_quaternion(((-pitch) * AngUnit * 3) \div 10,
                                        ((-yaw) * AngUnit * 3) \div 10,
                                        (roll * AngUnit * 3) \div 10)) >>
    ELSE <<>>

\* HeadBones sent only when the translation is present too
HeadBones_NeedsTranslation(f) ==
    IF f.success /\ ~IsNone(f.euler) /\ ~IsNone(f.translation)
    THEN LET pitch == Val(f.euler)[1]
             yaw == Val(f.euler)[2]
             roll == Val(f.euler)[3]
             tx == (Val(f.translation)[1] * PosUnit) \div 1000
             ty == ((-Val(f.translation)[2]) * PosUnit) \div 1000
             tz == (Val(f.translation)[3] * PosUnit) \div 1000
         IN  << send_bone_transform("Head", tx, ty, tz,
                    euler_to_quaternion(-pitch * AngUnit, -yaw * AngUnit, roll * AngUnit)),
                send_bone_transform("Neck", tx \div 2, ty \div 2, tz \div 2,
                    euler_to_quaternion(((-pitch) * AngUnit * 3) \div 10,
                                        ((-yaw) * AngUnit * 3) \div 10,
                                        (roll * AngUnit * 3) \div 10)) >>
    ELSE <<>>

\* lines 121-142: the Head and Neck bones
HeadBones(f) ==
    IF f.success /\ ~IsNone(f.euler)
    THEN LET pitch == Val(f.euler)[1]
             yaw == Val(f.euler)[2]
             roll == Val(f.euler)[3]
             q == euler_to_quaternion(Scale(pitch, -AngUnit, 1), Scale(yaw, -AngUnit, 1),
                                      Scale(roll, AngUnit, 1))
             tx == IF ~IsNone(f.translation)
                   THEN Scale(Val(f.translation)[1], PosUnit, 1000) ELSE 0
             ty == IF ~IsNone(f.translation)
                   THEN Scale(Val(f.translation)[2], -PosUnit, 1000) ELSE 0
             tz == IF ~IsNone(f.translation)
                   THEN Scale(Val(f.translation)[3], PosUnit, 1000) ELSE 0
             neck_q == euler_to_quaternion(Scale(pitch, -(AngUnit * 3), 10),
                                           Scale(yaw, -(AngUnit * 3), 10),
                                           Scale(roll, AngUnit * 3, 10))
         IN  << send_bone_transform("Head", tx, ty, tz, q),
                send_bone_transform("Neck", Scale(tx, 1, 2), Scale(ty, 1, 2),
                                    Scale(tz, 1, 2), neck_q) >>
    ELSE <<>>

\* lines 147-158: the right eye's bone
RightEyeBone(right_eye) ==
    IF Len(right_eye) >= 3
    THEN LET gaze_x_r == GazeAngle(NormGaze(right_eye[3]), MaxGazeX)
             gaze_y_r == GazeAngle(NormGaze(right_eye[2]), MaxGazeY)
         IN  << send_bone_transform("RightEye", 0, 0, 0,
                                    euler_to_quaternion(gaze_y_r, gaze_x_r, 0)) >>
    ELSE <<>>

\* lines 160-168: the left eye's bone
LeftEyeBone(left_eye) ==
    IF Len(left_eye) >= 3
    THEN LET gaze_x_l == GazeAngle(NormGaze(left_eye[3]), MaxGazeX)
             gaze_y_l == GazeAngle(NormGaze(left_eye[2]), MaxGazeY)
         IN  << send_bone_transform("LeftEye", 0, 0, 0,
                                    euler_to_quaternion(gaze_y_l, gaze_x_l, 0)) >>
    ELSE <<>>

\* EyeBones sent only when both entries are long enough
EyeBones_NeedsBoth(f) ==
    IF /\ ~IsNone(f.eye_state) /\ Len(Val(f.eye_state)) >= 2
       /\ Len(Val(f.eye_state)[1]) >= 3 /\ Len(Val(f.eye_state)[2]) >= 3
    THEN RightEyeBone(Val(f.eye_state)[1]) \o LeftEyeBone(Val(f.eye_state)[2])
    ELSE <<>>

\* lines 144-168: eye gaze as bone transforms
EyeBones(f) ==
    IF ~IsNone(f.eye_state) /\ Len(Val(f.eye_state)) >= 2
    THEN RightEyeBone(Val(f.eye_state)[1]) \o LeftEyeBone(Val(f.eye_state)[2])
    ELSE <<>>

\* BlinkShapes sending the tracker's openness, not inverted
BlinkShapes_NotInverted(f) ==
    IF ~IsNone(f.eye_blink)
    THEN LET right_blink == Clamp01(Val(f.eye_blink)[1])
             left_blink == Clamp01(Val(f.eye_blink)[2])
         IN  << send_blend_shape("eyeBlinkRight", right_blink),
                send_blend_shape("eyeBlinkLeft", left_blink),
                send_blend_shape("Blink_R", right_blink),
                send_blend_shape("Blink_L", left_blink),
                send_blend_shape("Blink", (right_blink + left_blink) \div 2) >>
    ELSE <<>>

\* BlinkShapes with the tracking loop's default [1, 1] for an absent eye_blink
BlinkShapes_DefaultOpen(f) ==
    LET eye_blink == IF IsNone(f.eye_blink) THEN <<One, One>> ELSE Val(f.eye_blink)
        right_blink == One - Clamp01(eye_blink[1])
        left_blink == One - Clamp01(eye_blink[2])
    IN  << send_blend_shape("eyeBlinkRight", right_blink),
           send_blend_shape("eyeBlinkLeft", left_blink),
           send_blend_shape("Blink_R", right_blink),
           send_blend_shape("Blink_L", left_blink),
           send_blend_shape("Blink", (right_blink + left_blink) \div 2) >>

\* lines 170-185: the blink blend shapes
BlinkShapes(f) ==
    IF ~IsNone(f.eye_blink)
    THEN LET right_blink == One - Clamp01(Val(f.eye_blink)[1])
             left_blink == One - Clamp01(Val(f.eye_blink)[2])
         IN  << send_blend_shape("eyeBlinkRight", right_blink),
                send_blend_shape("eyeBlinkLeft", left_blink),
                send_blend_shape("Blink_R", right_blink),
                send_blend_shape("Blink_L", left_blink),
                send_blend_shape("Blink", (right_blink + left_blink) \div 2) >>
    ELSE <<>>

\* lines 191-198
MouthOpenShapes(features) ==
    IF "mouth_open" \in DOMAIN features
    THEN LET mouth_open == Clamp01(features["mouth_open"])
         IN  << send_blend_shape("jawOpen", mouth_open),
                send_blend_shape("A", mouth_open),
                send_blend_shape("Aa", mouth_open),
                send_blend_shape("A", mouth_open) >>
    ELSE <<>>

\* lines 200-207
MouthWideShapes(features) ==
    IF "mouth_wide" \in DOMAIN features
    THEN LET mouth_wide == features["mouth_wide"]
         IN  IF mouth_wide > 0
             THEN << send_blend_shape("mouthSmileLeft", Min(One, mouth_wide)),
                     send_blend_shape("mouthSmileRight", Min(One, mouth_wide)) >>
             ELSE << send_blend_shape("mouthFrownLeft", Min(One, -mouth_wide)),
                     send_blend_shape("mouthFrownRight", Min(One, -mouth_wide)) >>
    ELSE <<>>

\* SignedShape with the value 0 taken as positive
SignedShape_ZeroIsPositive(features, key, positive, negative) ==
    IF key \in DOMAIN features
    THEN LET val == features[key]
         IN  IF val >= 0
             THEN << send_blend_shape(positive, Min(One, val)) >>
             ELSE << send_blend_shape(negative, Min(One, -val)) >>
    ELSE <<>>

\* lines 210-215, 217-222, 225-230, 232-237: one signed feature, one side
SignedShape(features, key, positive, negative) ==
    IF key \in DOMAIN features
    THEN LET val == features[key]
         IN  IF val > 0
             THEN << send_blend_shape(positive, Min(One, val)) >>
             ELSE << send_blend_shape(negative, Min(One, -val)) >>
    ELSE <<>>

\* FeatureShapes that also sends a blend shape for every key it does not know
FeatureShapes_SendsUnknown(f) ==
    IF ~IsNone(f.current_features)
    THEN LET features == Val(f.current_features)
             known == { "mouth_open", "mouth_wide", "mouth_corner_updown_l",
                        "mouth_corner_updown_r", "eyebrow_updown_l", "eyebrow_updown_r" }
         IN  MouthOpenShapes(features)
             \o MouthWideShapes(features)
             \o SignedShape(features, "mouth_corner_updown_l", "mouthSmileLeft", "mouthFrownLeft")
             \o SignedShape(features, "mouth_corner_updown_r", "mouthSmileRight", "mouthFrownRight")
             \o SignedShape(features, "eyebrow_updown_l", "browInnerUp", "browDownLeft")
             \o SignedShape(features, "eyebrow_updown_r", "browInnerUp", "browDownRight")
             \o (IF DOMAIN features \subseteq known
                 THEN <<>>
                 ELSE << send_blend_shape("unknown", 0) >>)
    ELSE <<>>

\* FeatureShapes with the mouth corners sent before mouth_wide
FeatureShapes_CornersFirst(f) ==
    IF ~IsNone(f.current_features)
    THEN LET features == Val(f.current_features)
         IN  MouthOpenShapes(features)
             \o SignedShape(features, "mouth_corner_updown_l", "mouthSmileLeft", "mouthFrownLeft")
             \o SignedShape(features, "mouth_corner_updown_r", "mouthSmileRight", "mouthFrownRight")
             \o MouthWideShapes(features)
             \o SignedShape(features, "eyebrow_updown_l", "browInnerUp", "browDownLeft")
             \o SignedShape(features, "eyebrow_updown_r", "browInnerUp", "browDownRight")
    ELSE <<>>

\* lines 187-237: the blend shapes derived from current_features
FeatureShapes(f) ==
    IF ~IsNone(f.current_features)
    THEN LET features == Val(f.current_features)
         IN  MouthOpenShapes(features)
             \o MouthWideShapes(features)
             \o SignedShape(features, "mouth_corner_updown_l", "mouthSmileLeft", "mouthFrownLeft")
             \o SignedShape(features, "mouth_corner_updown_r", "mouthSmileRight", "mouthFrownRight")
             \o SignedShape(features, "eyebrow_updown_l", "browInnerUp", "browDownLeft")
             \o SignedShape(features, "eyebrow_updown_r", "browInnerUp", "browDownRight")
    ELSE <<>>

\* lines 243-258: the right eye's gaze blend shapes
RightGazeShapes(right_eye) ==
    IF Len(right_eye) >= 3
    THEN LET gaze_x_r == NormGaze(right_eye[3])
             gaze_y_r == NormGaze(right_eye[2])
         IN  << send_blend_shape("eyeLookOutRight", Max(0, gaze_x_r)),
                send_blend_shape("eyeLookInRight", Max(0, -gaze_x_r)),
                send_blend_shape("eyeLookUpRight", Max(0, -gaze_y_r)),
                send_blend_shape("eyeLookDownRight", Max(0, gaze_y_r)),
                send_blend_shape("EyeLookOutRight", Max(0, gaze_x_r)),
                send_blend_shape("EyeLookInRight", Max(0, -gaze_x_r)),
                send_blend_shape("EyeLookUpRight", Max(0, -gaze_y_r)),
                send_blend_shape("EyeLookDownRight", Max(0, gaze_y_r)) >>
    ELSE <<>>

\* LeftGazeShapes with the horizontal convention of the right eye
LeftGazeShapes_NotMirrored(left_eye) ==
    IF Len(left_eye) >= 3
    THEN LET gaze_x_l == NormGaze(left_eye[3])
             gaze_y_l == NormGaze(left_eye[2])
         IN  << send_blend_shape("eyeLookInLeft", Max(0, -gaze_x_l)),
                send_blend_shape("eyeLookOutLeft", Max(0, gaze_x_l)),
                send_blend_shape("eyeLookUpLeft", Max(0, -gaze_y_l)),
                send_blend_shape("eyeLookDownLeft", Max(0, gaze_y_l)),
                send_blend_shape("EyeLookInLeft", Max(0, -gaze_x_l)),
                send_blend_shape("EyeLookOutLeft", Max(0, gaze_x_l)),
                send_blend_shape("EyeLookUpLeft", Max(0, -gaze_y_l)),
                send_blend_shape("EyeLookDownLeft", Max(0, gaze_y_l)) >>
    ELSE <<>>

\* lines 260-275: the left eye's gaze blend shapes
LeftGazeShapes(left_eye) ==
    IF Len(left_eye) >= 3
    THEN LET gaze_x_l == NormGaze(left_eye[3])
             gaze_y_l == NormGaze(left_eye[2])
         IN  << send_blend_shape("eyeLookInLeft", Max(0, gaze_x_l)),
                send_blend_shape("eyeLookOutLeft", Max(0, -gaze_x_l)),
                send_blend_shape("eyeLookUpLeft", Max(0, -gaze_y_l)),
                send_blend_shape("eyeLookDownLeft", Max(0, gaze_y_l)),
                send_blend_shape("EyeLookInLeft", Max(0, gaze_x_l)),
                send_blend_shape("EyeLookOutLeft", Max(0, -gaze_x_l)),
                send_blend_shape("EyeLookUpLeft", Max(0, -gaze_y_l)),
                send_blend_shape("EyeLookDownLeft", Max(0, gaze_y_l)) >>
    ELSE <<>>

\* GazeShapes guarded by the blink data as well
GazeShapes_NeedsBlink(f) ==
    IF ~IsNone(f.eye_blink) /\ ~IsNone(f.eye_state) /\ Len(Val(f.eye_state)) >= 2
    THEN RightGazeShapes(Val(f.eye_state)[1]) \o LeftGazeShapes(Val(f.eye_state)[2])
    ELSE <<>>

\* lines 239-275: eye gaze as blend shapes
GazeShapes(f) ==
    IF ~IsNone(f.eye_state) /\ Len(Val(f.eye_state)) >= 2
    THEN RightGazeShapes(Val(f.eye_state)[1]) \o LeftGazeShapes(Val(f.eye_state)[2])
    ELSE <<>>

\* Preamble with send_available left at its default status arguments
Preamble_DefaultStatus(f, elapsed) ==
    << send_available(IF f.success THEN 1 ELSE 0, 0, 0),
       send_time(elapsed),
       send_root_transform >>

\* lines 112-119: availability, time since start, root transform
Preamble(f, elapsed) ==
    << send_available(IF f.success THEN 1 ELSE 0, CalibrationState, TrackingStatus),
       send_time(elapsed),
       send_root_transform >>

\* send_tracking_data with the apply signal sent before the gaze blend shapes
send_tracking_data_ApplyEarly(optFace, elapsed) ==
    IF IsNone(optFace)
    THEN <<>>
    ELSE LET f == Val(optFace)
         IN  Preamble(f, elapsed) \o HeadBones(f) \o EyeBones(f) \o BlinkShapes(f)
             \o FeatureShapes(f) \o << send_blend_shape_apply >> \o GazeShapes(f)

\* send_tracking_data with the feature blend shapes sent before the blinks
send_tracking_data_FeaturesFirst(optFace, elapsed) ==
    IF IsNone(optFace)
    THEN <<>>
    ELSE LET f == Val(optFace)
         IN  Preamble(f, elapsed) \o HeadBones(f) \o EyeBones(f) \o FeatureShapes(f)
             \o BlinkShapes(f) \o GazeShapes(f) \o << send_blend_shape_apply >>

\* send_tracking_data that signals the end of a frame even without a snapshot
send_tracking_data_NoneSendsApply(optFace, elapsed) ==
    IF IsNone(optFace)
    THEN << send_blend_shape_apply >>
    ELSE LET f == Val(optFace)
         IN  Preamble(f, elapsed) \o HeadBones(f) \o EyeBones(f) \o BlinkShapes(f)
             \o FeatureShapes(f) \o GazeShapes(f) \o << send_blend_shape_apply >>

\* lines 106-278: the messages one call sends, in the order it sends them
send_tracking_data(optFace, elapsed) ==
    IF IsNone(optFace)
    THEN <<>>
    ELSE LET f == Val(optFace)
         IN  Preamble(f, elapsed)
             \o HeadBones(f)
             \o EyeBones(f)
             \o BlinkShapes(f)
             \o FeatureShapes(f)
             \o GazeShapes(f)
             \o << send_blend_shape_apply >>

-----------------------------------------------------------------------------
(* The snapshots the tracker may hand over *)

MaxClock == 2

MaxFeatures == 2

Snap(s, e, t, es, eb, cf) ==
    [success |-> s, euler |-> e, translation |-> t,
     eye_state |-> es, eye_blink |-> eb, current_features |-> cf]

\* degrees: pitch, yaw, roll
EulerVals == { <<0, 0, 0>>, <<10, -20, 30>> }

\* millimetres
TranslationVals == { <<0, 0, 1000>>, <<100, -200, 300>> }

\* pixel offsets inside and outside the 0..32 window
PixelVals == { -8, 16, 24, 40 }

\* one eye: [open, eye_y, eye_x, conf], or an entry that is too short
EyeEntries ==
    { <<1, 16>> } \cup { <<1, 24, 8>> }
    \cup { <<1, y, x, 1>> : y \in PixelVals, x \in PixelVals }

CenterEye == <<1, 16, 16, 1>>

EyeStateVals ==
    { <<>>, <<CenterEye>> } \cup { <<r, l>> : r \in EyeEntries, l \in EyeEntries }

\* 1 = open, 0 = closed, in units of 1/One; also values outside [0, 1]
BlinkVals == { -8, 0, 8, 16, 24 }

EyeBlinkVals == { <<r, l>> : r \in BlinkVals, l \in BlinkVals }

FeatureKeys ==
    { "mouth_open", "mouth_wide", "mouth_corner_updown_l", "mouth_corner_updown_r",
      "eyebrow_updown_l", "eyebrow_updown_r" }

\* a feature of the tracker the sender does not read
OtherKeys == { "eye_l" }

\* in units of 1/One: -1.5, -0.5, 0, 0.5, 1.5
FeatureVals == { -24, -8, 0, 8, 24 }

FeatureMaps ==
    UNION { [K -> FeatureVals] :
            K \in { S \in SUBSET (FeatureKeys \cup OtherKeys) : Cardinality(S) <= MaxFeatures } }

AllFeatures == [k \in FeatureKeys \cup OtherKeys |-> IF k = "mouth_open" THEN 24 ELSE 8]

Opt(S) == { None } \cup { Some(v) : v \in S }

\* every combination of present and absent fields, at one value each
PresenceSnaps ==
    { Snap(s, e, t, es, eb, cf) :
        s \in BOOLEAN, e \in Opt({ <<10, -20, 30>> }), t \in Opt({ <<100, -200, 300>> }),
        es \in Opt({ <<CenterEye, <<1, 24, 40, 1>>>> }), eb \in Opt({ <<8, 16>> }),
        cf \in Opt({ AllFeatures }) }

\* every value of one group of fields, the other fields absent
HeadSnaps ==
    { Snap(s, e, t, None, None, None) :
        s \in BOOLEAN, e \in Opt(EulerVals), t \in Opt(TranslationVals) }

EyeSnaps == { Snap(TRUE, None, None, Some(es), None, None) : es \in EyeStateVals }

BlinkSnaps == { Snap(TRUE, None, None, None, Some(eb), None) : eb \in EyeBlinkVals }

FeatureSnaps == { Snap(TRUE, None, None, None, None, Some(cf)) : cf \in FeatureMaps }

Snapshots == PresenceSnaps \cup HeadSnaps \cup EyeSnaps \cup BlinkSnaps \cup FeatureSnaps

-----------------------------------------------------------------------------
(* The sender as a state machine *)

\* gui.py lines 61-64, 575-582: the window as it opens: no preview, no
\* tracking, Start Tracking enabled, Stop Tracking disabled
InitWindow ==
    /\ preview_running = FALSE
    /\ cap = None
    /\ tracking_process = None
    /\ start_btn = "normal"
    /\ stop_tracking_btn = "disabled"
    /\ messagebox = ""
    /\ captures = <<>>
    /\ processes = <<>>
    /\ previews = <<>>
    /\ handler = [op |-> "none", pc |-> "idle"]

\* the threads that may be inside a call of the sender; 1 is the main thread
Threads == { 1, 2 }

\* the defaults of VMCSender.__init__
DefaultIp == "127.0.0.1"

DefaultPort == 39539

\* lines 46-50 with the default destination; no video frame read, no call
\* begun, nothing sent
InitStream ==
    /\ ip = DefaultIp
    /\ port = DefaultPort
    /\ faces = <<>>
    /\ face_num = 1
    /\ frame_count = 0
    /\ pend = [t \in Threads |-> <<>>]
    /\ log = <<>>
    /\ wire = <<>>

\* lines 46-50: the sender is constructed at some clock reading; the snapshot
\* its send_tracking_data will be given is any of the universe, or no snapshot
Init ==
    /\ now \in 0..MaxClock
    /\ start_time = now
    /\ face \in Opt(Snapshots)
    /\ frame = <<>>
    /\ calls = 0
    /\ prev_frame = <<>>
    /\ raised = FALSE
    /\ InitStream
    /\ InitWindow

\* time passes between two statements
Tick ==
    /\ now < MaxClock
    /\ now' = now + 1
    /\ UNCHANGED <<start_time, face, frame, calls, prev_frame, raised, streamvars, guivars>>

\* a second call that leaves out the root transform it has sent before
SendTrackingData_RootOnce ==
    /\ ~raised
    /\ frame' = LET msgs == send_tracking_data(face, now - start_time)
                     NotRoot(m) == m.addr # "/VMC/Ext/Root/Pos"
                 IN  IF calls = 1 THEN SelectSeq(msgs, NotRoot) ELSE msgs
    /\ prev_frame' = frame
    /\ calls' = 1
    /\ UNCHANGED <<start_time, now, face, raised, streamvars, guivars>>

\* lines 106-278: one call of send_tracking_data(face), every send succeeding
SendTrackingData ==
    /\ ~raised
    /\ frame' = send_tracking_data(face, now - start_time)
    /\ prev_frame' = frame
    /\ calls' = 1
    /\ UNCHANGED <<start_time, now, face, raised, streamvars, guivars>>

Next == Tick \/ SendTrackingData

Spec == Init /\ [][Next]_vars

\* lines 52-74, 106-278: one call of send_tracking_data(face) in which the
\* UDP send of message k fails: send_message raises, no method of the sender
\* catches it, and the call ends there with the exception
SendTrackingDataFailing ==
    /\ ~raised
    /\ \E k \in 1..Len(send_tracking_data(face, now - start_time)) :
          frame' = SubSeq(send_tracking_data(face, now - start_time), 1, k - 1)
    /\ prev_frame' = frame
    /\ calls' = 1
    /\ raised' = TRUE
    /\ UNCHANGED <<start_time, now, face, streamvars, guivars>>

\* line 116 reads time.time(), the wall clock, which the system may set back
\* between two readings
ClockStepBack ==
    /\ now > 0
    /\ now' \in 0..(now - 1)
    /\ UNCHANGED <<start_time, face, frame, calls, prev_frame, raised, streamvars, guivars>>

InitWallClock ==
    /\ Init
    /\ face \in Opt(PresenceSnaps)

NextWallClock == Tick \/ ClockStepBack \/ SendTrackingData

\* the sender on a wall clock that may be set back
SpecWallClock == InitWallClock /\ [][NextWallClock]_vars

\* snapshots whose head pose holds NaN components
NonFiniteVals == { NaN, 10 }

NonFiniteTriples == { <<a, b, c>> : a \in NonFiniteVals, b \in NonFiniteVals, c \in NonFiniteVals }

NonFiniteSnaps ==
    { Snap(TRUE, Some(e), t, None, None, None) :
        e \in NonFiniteTriples, t \in Opt(NonFiniteTriples) }

InitNonFinite ==
    /\ now \in 0..MaxClock
    /\ start_time = now
    /\ face \in { Some(f) : f \in NonFiniteSnaps }
    /\ frame = <<>>
    /\ calls = 0
    /\ prev_frame = <<>>
    /\ raised = FALSE
    /\ InitStream
    /\ InitWindow

\* the sender on snapshots with NaN in the head pose
SpecNonFinite == InitNonFinite /\ [][Next]_vars

InitTransport ==
    /\ Init
    /\ now = 0
    /\ face \in Opt(PresenceSnaps)

NextTransport == SendTrackingData \/ SendTrackingDataFailing

\* the sender on a socket whose sends may fail
SpecTransport == InitTransport /\ [][NextTransport]_vars

-----------------------------------------------------------------------------
(* The stream of messages: the tracking loop, and concurrent callers *)

\* the most faces tracker.predict returns for one video frame (--faces)
MaxFaces == 2

\* the video frames the loop reads
MaxVideoFrames == 2

\* the calls the concurrent callers make in all
MaxThreadCalls == 2

Idle(t) == IsNone(pend[t])

\* the snapshots concurrent callers pass: one with two blend shapes, one with none
ThreadFaces ==
    { Snap(TRUE, None, None, None, None, Some([mouth_wide |-> 8])),
      Snap(FALSE, None, None, None, None, None) }

\* a call that does not wait for the caller before it to leave the method
ThreadCall_Locked(t) ==
    /\ \A u \in Threads : Idle(u)
    /\ Len(log) < MaxThreadCalls
    /\ \E f \in ThreadFaces :
          /\ pend' = [pend EXCEPT ![t] = Some([id |-> Len(log) + 1, f |-> f, pos |-> 1])]
          /\ log' = Append(log, [video |-> 0, num |-> t, of |-> 0, f |-> f])
    /\ UNCHANGED <<start_time, now, callvars, guivars, ip, port, faces, face_num, frame_count, wire>>

\* a sender that keeps the first snapshot it was given and encodes that one
SendNext_KeepsFirstSnapshot(t) ==
    /\ ~Idle(t)
    /\ LET c == Val(pend[t])
           msgs == send_tracking_data(Some(log[1].f), now - start_time)
           own == send_tracking_data(Some(c.f), now - start_time)
       IN  /\ wire' = Append(wire, [call |-> c.id, msg |-> msgs[Min(c.pos, Len(msgs))]])
           /\ pend' = [pend EXCEPT ![t] =
                          IF c.pos = Len(own) THEN None ELSE Some([c EXCEPT !.pos = c.pos + 1])]
    /\ UNCHANGED <<start_time, now, callvars, guivars, ip, port, faces, face_num, frame_count, log>>

\* a loop that steps over every second face of the list
ForEachFace_SkipsFaces ==
    /\ Idle(1)
    /\ face_num <= Len(faces)
    /\ LET f == IF IsNone(faces[face_num].eye_blink)
                 THEN [faces[face_num] EXCEPT !.eye_blink = Some(<<One, One>>)]
                 ELSE faces[face_num]
       IN  /\ pend' = [pend EXCEPT ![1] = Some([id |-> Len(log) + 1, f |-> f, pos |-> 1])]
           /\ log' = Append(log, [video |-> frame_count, num |-> face_num,
                                  of |-> Len(faces), f |-> f])
    /\ face_num' = face_num + 2
    /\ UNCHANGED <<start_time, now, callvars, guivars, ip, port, faces, frame_count, wire>>

\* a loop that sets the default eye_blink on the tracker's own face object
ForEachFace_InPlace ==
    /\ Idle(1)
    /\ face_num <= Len(faces)
    /\ LET f == IF IsNone(faces[face_num].eye_blink)
                 THEN [faces[face_num] EXCEPT !.eye_blink = Some(<<One, One>>)]
                 ELSE faces[face_num]
       IN  /\ pend' = [pend EXCEPT ![1] = Some([id |-> Len(log) + 1, f |-> f, pos |-> 1])]
           /\ log' = Append(log, [video |-> frame_count, num |-> face_num,
                                  of |-> Len(faces), f |-> f])
           /\ faces' = [faces EXCEPT ![face_num] = f]
    /\ face_num' = face_num + 1
    /\ UNCHANGED <<start_time, now, callvars, guivars, ip, port, frame_count, wire>>

\* the faces the tracker returns in the loop: one with eye_blink, one without
LoopFaces ==
    { Snap(TRUE, None, None, None, Some(<<8, 16>>), None),
      Snap(TRUE, None, None, None, None, Some([mouth_wide |-> 8])) }

FaceLists == UNION { [1..n -> LoopFaces] : n \in 0..MaxFaces }

\* facetracker_vmc.py lines 155-158: the shallow copy the loop sends, its
\* eye_blink set to [1, 1] where the tracker gave none
CopyWithBlink(f) ==
    IF IsNone(f.eye_blink) THEN [f EXCEPT !.eye_blink = Some(<<One, One>>)] ELSE f

\* facetracker_vmc.py lines 109-151: the loop, having sent every face of the
\* frame before, reads the next video frame and runs the tracker on it
Predict ==
    /\ Idle(1)
    /\ face_num > Len(faces)
    /\ frame_count < MaxVideoFrames
    /\ faces' \in FaceLists
    /\ face_num' = 1
    /\ frame_count' = frame_count + 1
    /\ UNCHANGED <<start_time, now, callvars, guivars, ip, port, pend, log, wire>>

\* facetracker_vmc.py lines 154-161: the loop takes the next face of the list
\* and enters send_tracking_data with its copy; it does so only once the call
\* before has returned
ForEachFace ==
    /\ Idle(1)
    /\ face_num <= Len(faces)
    /\ pend' = [pend EXCEPT ![1] =
                   Some([id |-> Len(log) + 1, f |-> CopyWithBlink(faces[face_num]), pos |-> 1])]
    /\ log' = Append(log, [video |-> frame_count, num |-> face_num,
                           of |-> Len(faces), f |-> CopyWithBlink(faces[face_num])])
    /\ face_num' = face_num + 1
    /\ UNCHANGED <<start_time, now, callvars, guivars, ip, port, faces, frame_count, wire>>

\* vmc_sender.py lines 52-74, 106-278: the call thread t is inside hands its
\* next message to the socket; the message is built from the snapshot of that
\* call and from the clock as read now, and after Blend/Apply the call returns
SendNext(t) ==
    /\ ~Idle(t)
    /\ LET c == Val(pend[t])
           msgs == send_tracking_data(Some(c.f), now - start_time)
       IN  /\ wire' = Append(wire, [call |-> c.id, msg |-> msgs[c.pos]])
           /\ pend' = [pend EXCEPT ![t] =
                          IF c.pos = Len(msgs) THEN None ELSE Some([c EXCEPT !.pos = c.pos + 1])]
    /\ UNCHANGED <<start_time, now, callvars, guivars, ip, port, faces, face_num, frame_count, log>>

InitLoop ==
    /\ Init
    /\ now = 0
    /\ IsNone(face)

NextLoop == Predict \/ ForEachFace \/ SendNext(1)

\* the tracking loop of facetracker_vmc.py on the one sender it constructs;
\* the clock stands still in it, so every /VMC/Ext/T of the stream reads 0
SpecLoop == InitLoop /\ [][NextLoop]_vars

\* vmc_sender.py lines 106-110: thread t enters send_tracking_data with a
\* snapshot; the method takes no lock, so another thread may be inside it
ThreadCall(t) ==
    /\ Idle(t)
    /\ Len(log) < MaxThreadCalls
    /\ \E f \in ThreadFaces :
          /\ pend' = [pend EXCEPT ![t] = Some([id |-> Len(log) + 1, f |-> f, pos |-> 1])]
          /\ log' = Append(log, [video |-> 0, num |-> t, of |-> 0, f |-> f])
    /\ UNCHANGED <<start_time, now, callvars, guivars, ip, port, faces, face_num, frame_count, wire>>

InitThreads ==
    /\ Init
    /\ now = 0
    /\ IsNone(face)

NextThreads == \E t \in Threads : ThreadCall(t) \/ SendNext(t)

\* two threads calling send_tracking_data of one sender
SpecThreads == InitThreads /\ [][NextThreads]_vars

-----------------------------------------------------------------------------
(* The window of gui.py: preview threads and the tracking subprocess *)

\* the cv2.VideoCapture objects one session of the window creates
MaxCaptures == 2

\* the subprocesses one session of the window launches
MaxProcesses == 2

\* the GUI thread is in the main loop, waiting for an event
InMainLoop == handler.op = "none"

\* a preview thread that has not left preview_loop
Alive(t) == previews[t].pc \in { "test", "read" }

\* a subprocess that has not exited
Running(p) == processes[p] # "exited"

\* start_tracking that stores the handle before the launch fails
start_tracking_FailureAfterAssign ==
    /\ handler = [op |-> "start_tracking", pc |-> "launch"]
    /\ handler' = [op |-> "none", pc |-> "idle"]
    /\ IF ~IsNone(tracking_process) /\ Running(Val(tracking_process))
       THEN /\ messagebox' = "Tracking is already running!"
            /\ UNCHANGED <<tracking_process, processes, start_btn, stop_tracking_btn>>
       ELSE \/ /\ processes' = Append(processes, "running")
               /\ tracking_process' = Some(Len(processes) + 1)
               /\ start_btn' = "disabled"
               /\ stop_tracking_btn' = "normal"
               /\ UNCHANGED messagebox
            \/ /\ messagebox' = "Failed to start tracking"
               /\ processes' = Append(processes, "exited")
               /\ tracking_process' = Some(Len(processes) + 1)
               /\ UNCHANGED <<start_btn, stop_tracking_btn>>
    /\ UNCHANGED <<sendervars, preview_running, cap, captures, previews>>

\* lines 301-332, the Preview button; a camera is selected.  While
\* preview_running is set the callback returns at once.  Otherwise it
\* creates a capture and stores it in cap; if the camera does not open it
\* shows an error, else it sets preview_running and starts a preview thread
start_preview ==
    /\ InMainLoop
    /\ IF preview_running
       THEN UNCHANGED <<cap, captures, preview_running, previews, messagebox>>
       ELSE /\ Len(captures) < MaxCaptures
            /\ cap' = Some(Len(captures) + 1)
            /\ \/ /\ captures' = Append(captures, "unopened")
                  /\ messagebox' = "Cannot open camera"
                  /\ UNCHANGED <<preview_running, previews>>
               \/ /\ captures' = Append(captures, "open")
                  /\ preview_running' = TRUE
                  /\ previews' = Append(previews, [pc |-> "test", last |-> "none"])
                  /\ UNCHANGED messagebox
    /\ UNCHANGED <<sendervars, tracking_process, start_btn, stop_tracking_btn,
                   processes, handler>>

\* line 339, the first statement of stop_preview, entered from the Stop
\* button, from start_tracking (line 371, the Start Tracking button, which
\* reacts only while enabled) or from on_closing (line 433)
stop_preview_flag ==
    /\ InMainLoop
    /\ \E op \in { "stop_preview", "start_tracking", "on_closing" } :
          /\ op = "start_tracking" => (start_btn = "normal" /\ Len(processes) < MaxProcesses)
          /\ handler' = [op |-> op, pc |-> "release"]
    /\ preview_running' = FALSE
    /\ UNCHANGED <<sendervars, cap, tracking_process, start_btn, stop_tracking_btn,
                   messagebox, captures, processes, previews>>

\* the callback continues after stop_preview has returned
AfterStopPreview ==
    CASE handler.op = "stop_preview" -> [op |-> "none", pc |-> "idle"]
      [] handler.op = "start_tracking" -> [op |-> "start_tracking", pc |-> "launch"]
      [] handler.op = "on_closing" -> [op |-> "on_closing", pc |-> "stop"]

\* lines 340-342: after the sleep, which waits for no thread, the capture in
\* cap is released
stop_preview_release ==
    /\ handler.pc = "release"
    /\ IF IsNone(cap)
       THEN /\ handler' = AfterStopPreview
            /\ UNCHANGED captures
       ELSE /\ captures' = [captures EXCEPT ![Val(cap)] = "released"]
            /\ handler' = [handler EXCEPT !.pc = "clear"]
    /\ UNCHANGED <<sendervars, preview_running, cap, tracking_process, start_btn,
                   stop_tracking_btn, messagebox, processes, previews>>

\* lines 343-346: cap = None, and stop_preview returns
stop_preview_clear ==
    /\ handler.pc = "clear"
    /\ cap' = None
    /\ handler' = AfterStopPreview
    /\ UNCHANGED <<sendervars, preview_running, tracking_process, start_btn,
                   stop_tracking_btn, messagebox, captures, processes, previews>>

\* lines 353-363: one step of preview thread t.  At the head of the loop it
\* tests preview_running and cap and leaves the loop if either is unset; in
\* the body it calls read() on whatever cap holds at that moment: None makes
\* the thread die of an AttributeError
preview_loop(t) ==
    /\ Alive(t)
    /\ IF previews[t].pc = "test"
       THEN previews' = [previews EXCEPT ![t].pc =
                            IF preview_running /\ ~IsNone(cap) THEN "read" ELSE "done"]
       ELSE IF IsNone(cap)
       THEN previews' = [previews EXCEPT ![t] = [pc |-> "crashed", last |-> previews[t].last]]
       ELSE previews' = [previews EXCEPT ![t] = [pc |-> "test", last |-> captures[Val(cap)]]]
    /\ UNCHANGED <<sendervars, preview_running, cap, tracking_process, start_btn,
                   stop_tracking_btn, messagebox, captures, processes, handler>>

\* lines 373-418, start_tracking after its stop_preview: the warning if the
\* process of tracking_process has not exited; else the subprocess is
\* launched, its handle stored and the buttons switched, or the launch
\* raises (a port that is no number, a failing Popen) and an error is shown
start_tracking ==
    /\ handler = [op |-> "start_tracking", pc |-> "launch"]
    /\ handler' = [op |-> "none", pc |-> "idle"]
    /\ IF ~IsNone(tracking_process) /\ Running(Val(tracking_process))
       THEN /\ messagebox' = "Tracking is already running!"
            /\ UNCHANGED <<tracking_process, processes, start_btn, stop_tracking_btn>>
       ELSE \/ /\ processes' = Append(processes, "running")
               /\ tracking_process' = Some(Len(processes) + 1)
               /\ start_btn' = "disabled"
               /\ stop_tracking_btn' = "normal"
               /\ UNCHANGED messagebox
            \/ /\ messagebox' = "Failed to start tracking"
               /\ UNCHANGED <<tracking_process, processes, start_btn, stop_tracking_btn>>
    /\ UNCHANGED <<sendervars, preview_running, cap, captures, previews>>

\* lines 424-429, the body of stop_tracking: terminate() signals the process
\* and returns without waiting for it to exit
Terminated ==
    IF processes[Val(tracking_process)] = "running"
    THEN [processes EXCEPT ![Val(tracking_process)] = "terminating"]
    ELSE processes

\* lines 420-429, the Stop Tracking button, which reacts only while enabled
stop_tracking ==
    /\ InMainLoop
    /\ stop_tracking_btn = "normal"
    /\ IF ~IsNone(tracking_process)
       THEN /\ processes' = Terminated
            /\ tracking_process' = None
            /\ start_btn' = "normal"
            /\ stop_tracking_btn' = "disabled"
       ELSE UNCHANGED <<processes, tracking_process, start_btn, stop_tracking_btn>>
    /\ UNCHANGED <<sendervars, preview_running, cap, messagebox, captures, previews, handler>>

\* lines 434-435, on_closing after its stop_preview: stop_tracking, then the
\* window is destroyed, the main loop ends and the daemon threads end with it
on_closing ==
    /\ handler = [op |-> "on_closing", pc |-> "stop"]
    /\ handler' = [op |-> "closed", pc |-> "idle"]
    /\ IF ~IsNone(tracking_process)
       THEN /\ processes' = Terminated
            /\ tracking_process' = None
            /\ start_btn' = "normal"
            /\ stop_tracking_btn' = "disabled"
       ELSE UNCHANGED <<processes, tracking_process, start_btn, stop_tracking_btn>>
    /\ previews' = [t \in 1..Len(previews) |->
                       IF Alive(t) THEN [previews[t] EXCEPT !.pc = "done"] ELSE previews[t]]
    /\ UNCHANGED <<sendervars, preview_running, cap, messagebox, captures>>

\* subprocess p exits: by itself, or some time after terminate()
ProcessExit(p) ==
    /\ Running(p)
    /\ processes' = [processes EXCEPT ![p] = "exited"]
    /\ UNCHANGED <<sendervars, preview_running, cap, tracking_process, start_btn,
                   stop_tracking_btn, messagebox, captures, previews, handler>>

InitGui ==
    /\ Init
    /\ now = 0
    /\ IsNone(face)

NextGui ==
    \/ start_preview
    \/ stop_preview_flag
    \/ stop_preview_release
    \/ stop_preview_clear
    \/ start_tracking
    \/ stop_tracking
    \/ on_closing
    \/ \E t \in 1..Len(previews) : preview_loop(t)
    \/ \E p \in 1..Len(processes) : ProcessExit(p)

\* the window of gui.py with its preview threads and subprocesses
SpecGui == InitGui /\ [][NextGui]_vars

-----------------------------------------------------------------------------
(* Vocabulary of the properties *)

OKAddr == "/VMC/Ext/OK"

TAddr == "/VMC/Ext/T"

RootAddr == "/VMC/Ext/Root/Pos"

BoneAddr == "/VMC/Ext/Bone/Pos"

BlendValAddr == "/VMC/Ext/Blend/Val"

BlendApplyAddr == "/VMC/Ext/Blend/Apply"

\* a call with a snapshot has returned, and frame holds what it sent
Sent == calls = 1 /\ ~IsNone(face)

IsBone(m, name) == m.addr = BoneAddr /\ m.args[1] = name

IsBlend(m, name) == m.addr = BlendValAddr /\ m.args[1] = name

HasBone(name) == \E i \in 1..Len(frame) : IsBone(frame[i], name)

HasBlend(name) == \E i \in 1..Len(frame) : IsBlend(frame[i], name)

BlinkNames == { "eyeBlinkRight", "eyeBlinkLeft", "Blink_R", "Blink_L", "Blink" }

FeatureNames ==
    { "jawOpen", "A", "Aa", "mouthSmileLeft", "mouthSmileRight", "mouthFrownLeft",
      "mouthFrownRight", "browInnerUp", "browDownLeft", "browDownRight" }

GazeNames ==
    { "eyeLookOutRight", "eyeLookInRight", "eyeLookUpRight", "eyeLookDownRight",
      "EyeLookOutRight", "EyeLookInRight", "EyeLookUpRight", "EyeLookDownRight",
      "eyeLookInLeft", "eyeLookOutLeft", "eyeLookUpLeft", "eyeLookDownLeft",
      "EyeLookInLeft", "EyeLookOutLeft", "EyeLookUpLeft", "EyeLookDownLeft" }

\* the emission step (1..9) a message belongs to; 0 for a message of no step
StepOf(m) ==
    CASE m.addr = OKAddr -> 1
      [] m.addr = TAddr -> 2
      [] m.addr = RootAddr -> 3
      [] m.addr = BoneAddr ->
            IF m.args[1] \in { "Head", "Neck" } THEN 4
            ELSE IF m.args[1] \in { "RightEye", "LeftEye" } THEN 5 ELSE 0
      [] m.addr = BlendValAddr ->
            IF m.args[1] \in BlinkNames THEN 6
            ELSE IF m.args[1] \in FeatureNames THEN 7
            ELSE IF m.args[1] \in GazeNames THEN 8 ELSE 0
      [] m.addr = BlendApplyAddr -> 9
      [] OTHER -> 0

StepsOf(msgs) == { StepOf(msgs[i]) : i \in 1..Len(msgs) }

-----------------------------------------------------------------------------
(* C1: the messages of one call with a snapshot start with /VMC/Ext/OK, end
   with /VMC/Ext/Blend/Apply, and Blend/Apply comes after every Blend/Val. *)
C1_StartsOKEndsApply ==
    Sent =>
        /\ Len(frame) >= 2
        /\ frame[1].addr = OKAddr
        /\ frame[Len(frame)].addr = BlendApplyAddr
        /\ \A i \in 1..Len(frame) :
              frame[i].addr = BlendValAddr =>
                  \E j \in (i + 1)..Len(frame) : frame[j].addr = BlendApplyAddr
        /\ \A i \in 1..Len(frame) :
              frame[i].addr = BlendApplyAddr =>
                  \A j \in (i + 1)..Len(frame) : frame[j].addr # BlendValAddr

\* a frame that carries blink, feature and gaze blend shapes
C1_Witness ==
    /\ Sent
    /\ { 6, 7, 8 } \subseteq StepsOf(frame)
    /\ frame[Len(frame)].addr = BlendApplyAddr

(* C2: the nine emission steps come in their order: no message of a later
   step is sent before a message of an earlier step. *)
C2_StepsInOrder ==
    Sent =>
        /\ \A i \in 1..Len(frame) : StepOf(frame[i]) \in 1..9
        /\ \A i \in 1..(Len(frame) - 1) : StepOf(frame[i]) <= StepOf(frame[i + 1])
        /\ \A i \in 1..Len(frame) :
              /\ IsBone(frame[i], "Head") =>
                    \A j \in 1..Len(frame) : IsBone(frame[j], "Neck") => i < j
              /\ IsBone(frame[i], "RightEye") =>
                    \A j \in 1..Len(frame) : IsBone(frame[j], "LeftEye") => i < j

\* a frame in which all nine steps are present
C2_Witness == Sent /\ StepsOf(frame) = 1..9

-----------------------------------------------------------------------------
OptionalFields == { "euler", "translation", "eye_state", "eye_blink", "current_features" }

\* the steps whose messages read a field
StepsReading(field) ==
    CASE field = "euler" -> { 4 }
      [] field = "translation" -> { 4 }
      [] field = "eye_state" -> { 5, 8 }
      [] field = "eye_blink" -> { 6 }
      [] field = "current_features" -> { 7 }

\* the steps that are skipped when a field is absent
StepsGatedBy(field) == IF field = "translation" THEN {} ELSE StepsReading(field)

\* the messages of msgs outside the steps of S, in their order
OutsideSteps(msgs, S) ==
    LET Keep(m) == StepOf(m) \notin S
    IN  SelectSeq(msgs, Keep)

(* C3: whatever fields are present, the call completes and sends OK, T,
   Root/Pos and Blend/Apply; with one field made absent, the frame loses the
   messages of the steps gated by that field, and every message outside the
   steps that read the field is the same, in the same order. *)
C3_AbsenceSuppressesOnlyItsSteps ==
    Sent =>
        /\ Len(frame) >= 4
        /\ frame[1].addr = OKAddr /\ frame[2].addr = TAddr /\ frame[3].addr = RootAddr
        /\ frame[Len(frame)].addr = BlendApplyAddr
        /\ \A field \in OptionalFields :
              IF IsNone(Val(face)[field])
              THEN \* the field is absent already: the frame has none of its steps
                   StepsOf(frame) \cap StepsGatedBy(field) = {}
              ELSE LET without == send_tracking_data(Some([Val(face) EXCEPT ![field] = None]),
                                                     frame[2].args[1])
                       kept == OutsideSteps(frame, StepsReading(field))
                   IN  /\ OutsideSteps(without, StepsReading(field)) = kept
                       /\ StepsOf(without) \cap StepsGatedBy(field) = {}
                       /\ Len(without) = IF StepsGatedBy(field) = StepsReading(field)
                                         THEN Len(kept)
                                         ELSE Len(OutsideSteps(frame, StepsGatedBy(field)))

\* a frame of a snapshot with every field present, every step sent
C3_Witness ==
    /\ Sent
    /\ \A field \in OptionalFields : ~IsNone(Val(face)[field])
    /\ StepsOf(frame) = 1..9
    /\ Len(frame) > 30

(* C4 as stated: for success = false and every optional field absent, only
   OK(0,3,1), T and Root/Pos are sent, and no Bone or Blend message. *)
C4_OnlyOkTRoot ==
    (Sent /\ Val(face) = Snap(FALSE, None, None, None, None, None)) =>
        \A i \in 1..Len(frame) : frame[i].addr \in { OKAddr, TAddr, RootAddr }

(* C4, amended: for success = false and every optional field absent, the
   frame is OK(0,3,1), T, Root/Pos and the closing Blend/Apply: no Bone/Pos
   and no Blend/Val message is sent. *)
C4_OnlyOkTRootApply ==
    (Sent /\ Val(face) = Snap(FALSE, None, None, None, None, None)) =>
        /\ Len(frame) = 4
        /\ frame[1] = [addr |-> OKAddr, args |-> <<0, 3, 1>>]
        /\ frame[2].addr = TAddr
        /\ frame[3].addr = RootAddr
        /\ frame[4] = [addr |-> BlendApplyAddr, args |-> <<>>]

C4_Witness ==
    /\ Sent
    /\ Val(face) = Snap(FALSE, None, None, None, None, None)
    /\ Len(frame) = 4

(* C5: the first three messages of every frame are OK(1 if success else 0, 3, 1),
   T with one argument, and Root/Pos("root", 0,0,0, 0,0,0,1), whatever the
   other fields are; success = false still gives the OK message. *)
C5_FirstThreeMessages ==
    Sent =>
        /\ Len(frame) >= 3
        /\ frame[1] = [addr |-> OKAddr,
                       args |-> <<IF Val(face).success THEN 1 ELSE 0, 3, 1>>]
        /\ frame[2].addr = TAddr
        /\ Len(frame[2].args) = 1
        /\ frame[2].args[1] \in Int
        /\ frame[3] = [addr |-> RootAddr, args |-> <<"root", 0, 0, 0, 0, 0, 0, 1>>]

\* a frame of a snapshot with success = false and other fields present
C5_Witness ==
    /\ Sent
    /\ ~Val(face).success
    /\ ~IsNone(Val(face).euler)
    /\ ~IsNone(Val(face).eye_blink)
    /\ frame[1].args = <<0, 3, 1>>

(* C6: Head and Neck are sent exactly when success is true and euler is
   present, with or without translation; Neck directly follows Head, and
   neither is sent without the other. *)
C6_HeadNeckIffSuccessAndEuler ==
    Sent =>
        /\ HasBone("Head") <=> (Val(face).success /\ ~IsNone(Val(face).euler))
        /\ HasBone("Neck") <=> (Val(face).success /\ ~IsNone(Val(face).euler))
        /\ \A i \in 1..Len(frame) :
              IsBone(frame[i], "Head") =>
                  i < Len(frame) /\ IsBone(frame[i + 1], "Neck")
        /\ \A i \in 1..Len(frame) :
              IsBone(frame[i], "Neck") => i > 1 /\ IsBone(frame[i - 1], "Head")

\* Head and Neck sent for a snapshot without translation
C6_Witness ==
    /\ Sent
    /\ Val(face).success
    /\ ~IsNone(Val(face).euler)
    /\ IsNone(Val(face).translation)
    /\ HasBone("Head")
    /\ HasBone("Neck")

-----------------------------------------------------------------------------
\* eye_state is present with two entries, and entry k is long enough
EntryUsable(k) ==
    /\ ~IsNone(Val(face).eye_state)
    /\ Len(Val(Val(face).eye_state)) >= 2
    /\ Len(Val(Val(face).eye_state)[k]) >= 3

(* C7 as stated: an eye bone is sent only if eye_state is present and both
   of its entries have length >= 3. *)
C7_EyeBonesNeedBothEntries ==
    Sent =>
        ((HasBone("RightEye") \/ HasBone("LeftEye")) => (EntryUsable(1) /\ EntryUsable(2)))

(* C7, amended: the RightEye bone is sent exactly when eye_state is present
   with two entries and entry 0 has length >= 3, the LeftEye bone exactly when
   eye_state is present with two entries and entry 1 has length >= 3; a short
   entry suppresses the bone of its own eye only. *)
C7_EyeBonePerEntry ==
    Sent =>
        /\ HasBone("RightEye") <=> EntryUsable(1)
        /\ HasBone("LeftEye") <=> EntryUsable(2)

\* the right eye's bone sent although the left entry is too short
C7_Witness ==
    /\ Sent
    /\ EntryUsable(1)
    /\ ~EntryUsable(2)
    /\ HasBone("RightEye")
    /\ ~HasBone("LeftEye")

(* C8: every Blend/Val message carries a weight in [0, 1], for all feature
   values and all eye pixel offsets. *)
C8_BlendWeightsInUnitRange ==
    Sent =>
        \A i \in 1..Len(frame) :
            frame[i].addr = BlendValAddr =>
                (frame[i].args[2] >= 0 /\ frame[i].args[2] <= One)

\* 1 - clamp01(open), by cases
ClosedOf(open) == IF open <= 0 THEN One ELSE IF open >= One THEN 0 ELSE One - open

BlinkMessages ==
    LET IsBlink(m) == m.addr = BlendValAddr /\ m.args[1] \in BlinkNames
    IN  SelectSeq(frame, IsBlink)

(* C9: with eye_blink present the frame carries eyeBlinkRight, eyeBlinkLeft,
   Blink_R, Blink_L, Blink, in this order, with values r, l, r, l, (r+l)/2
   for r = 1 - clamp01(eye_blink[0]) and l = 1 - clamp01(eye_blink[1]), all
   in [0, 1], and all 0 for eye_blink = (1, 1); with eye_blink absent it
   carries none of the five. *)
C9_BlinkShapes ==
    Sent =>
        IF IsNone(Val(face).eye_blink)
        THEN BlinkMessages = <<>>
        ELSE LET r == ClosedOf(Val(Val(face).eye_blink)[1])
                 l == ClosedOf(Val(Val(face).eye_blink)[2])
             IN  /\ 2 * ((r + l) \div 2) = r + l
                 /\ BlinkMessages =
                        << [addr |-> BlendValAddr, args |-> <<"eyeBlinkRight", r>>],
                           [addr |-> BlendValAddr, args |-> <<"eyeBlinkLeft", l>>],
                           [addr |-> BlendValAddr, args |-> <<"Blink_R", r>>],
                           [addr |-> BlendValAddr, args |-> <<"Blink_L", l>>],
                           [addr |-> BlendValAddr, args |-> <<"Blink", (r + l) \div 2>>] >>
                 /\ \A i \in 1..Len(BlinkMessages) :
                       BlinkMessages[i].args[2] \in 0..One
                 /\ Val(Val(face).eye_blink) = <<One, One>> =>
                       \A i \in 1..Len(BlinkMessages) : BlinkMessages[i].args[2] = 0

\* eye_blink = (1, 1): the five blink shapes are sent with value 0
C9_Witness ==
    /\ Sent
    /\ Val(face).eye_blink = Some(<<One, One>>)
    /\ Len(BlinkMessages) = 5
    /\ \E i \in 1..Len(frame) : frame[i] = [addr |-> BlendValAddr, args |-> <<"Blink", 0>>]

(* C10: with mouth_open among the features, the messages derived from it are
   jawOpen, A and Aa, one message per name in this order, each with the value
   clamp01(mouth_open). *)
C10_MouthOpenOneMessagePerName ==
    (Sent /\ ~IsNone(Val(face).current_features)
          /\ "mouth_open" \in DOMAIN Val(Val(face).current_features)) =>
        LET v == Clamp01(Val(Val(face).current_features)["mouth_open"])
            FromMouthOpen(m) == m.addr = BlendValAddr /\ m.args[1] \in { "jawOpen", "A", "Aa" }
        IN  SelectSeq(frame, FromMouthOpen) =
                << [addr |-> BlendValAddr, args |-> <<"jawOpen", v>>],
                   [addr |-> BlendValAddr, args |-> <<"A", v>>],
                   [addr |-> BlendValAddr, args |-> <<"Aa", v>>] >>

-----------------------------------------------------------------------------
\* the position arguments of a bone message
PosOf(m) == <<m.args[2], m.args[3], m.args[4]>>

\* millimetres to metres with Y negated, in units of 1/2000 m
HeadPosOf(t) == <<2 * t[1], -(2 * t[2]), 2 * t[3]>>

(* C11: when Head is sent its position is (tx/1000, -ty/1000, tz/1000) for
   the translation (tx, ty, tz) in millimetres, or (0,0,0) without a
   translation, and the Neck position of the frame is half of it in each
   component; translation (0,0,1000) gives Head (0,0,1.0), Neck (0,0,0.5). *)
C11_HeadNeckPosition ==
    Sent =>
        \A i \in 1..Len(frame) :
            IsBone(frame[i], "Head") =>
                LET head == IF IsNone(Val(face).translation)
                            THEN <<0, 0, 0>>
                            ELSE HeadPosOf(Val(Val(face).translation))
                IN  /\ PosOf(frame[i]) = head
                    /\ i < Len(frame)
                    /\ IsBone(frame[i + 1], "Neck")
                    /\ \A k \in 1..3 : 2 * PosOf(frame[i + 1])[k] = head[k]
                    /\ Val(face).translation = Some(<<0, 0, 1000>>) =>
                          /\ PosOf(frame[i]) = <<0, 0, 2000>>
                          /\ PosOf(frame[i + 1]) = <<0, 0, 1000>>

\* a translation with a non-zero Y: Head at (0.1, 0.2, 0.3) m, Neck at half of it
C11_Witness ==
    /\ Sent
    /\ Val(face).translation = Some(<<100, -200, 300>>)
    /\ \E i \in 1..(Len(frame) - 1) :
          /\ IsBone(frame[i], "Head") /\ PosOf(frame[i]) = <<200, 400, 600>>
          /\ IsBone(frame[i + 1], "Neck") /\ PosOf(frame[i + 1]) = <<100, 200, 300>>

\* clamp((offset - 16) / 16, -1, 1) * maxDeg degrees, in units of 1/80 degree
GazeDegrees(offset, maxDeg) ==
    IF offset <= 0 THEN -(maxDeg * 80)
    ELSE IF offset >= 32 THEN maxDeg * 80
    ELSE (offset - 16) * maxDeg * 5

\* the eye_state entry a bone of an eye is built from
EntryOf(name) == Val(Val(face).eye_state)[IF name = "RightEye" THEN 1 ELSE 2]

(* C12: for every pixel offset the eye bone's rotation is built from the
   horizontal angle clamp((x-16)/16, -1, 1) * 15 and the vertical angle
   clamp((y-16)/16, -1, 1) * 10, so they lie in [-15, 15] and [-10, 10]
   degrees, with no roll; the eye bone's position is (0,0,0). *)
C12_GazeAngles ==
    Sent =>
        \A i \in 1..Len(frame) :
            \A name \in { "RightEye", "LeftEye" } :
                IsBone(frame[i], name) =>
                    LET rot == frame[i].args[5]
                    IN  /\ rot.yaw = GazeDegrees(EntryOf(name)[3], 15)
                        /\ rot.pitch = GazeDegrees(EntryOf(name)[2], 10)
                        /\ rot.roll = 0
                        /\ rot.yaw >= -(15 * 80) /\ rot.yaw <= 15 * 80
                        /\ rot.pitch >= -(10 * 80) /\ rot.pitch <= 10 * 80
                        /\ PosOf(frame[i]) = <<0, 0, 0>>

\* offsets outside the window on both sides: the angles are at their limits
C12_Witness ==
    /\ Sent
    /\ ~IsNone(Val(face).eye_state)
    /\ Val(Val(face).eye_state) = << <<1, -8, 40, 1>>, <<1, 24, 16, 1>> >>
    /\ \E i \in 1..Len(frame) :
          /\ IsBone(frame[i], "RightEye")
          /\ frame[i].args[5] = Quat(-(10 * 80), 15 * 80, 0)
    /\ \E i \in 1..Len(frame) :
          /\ IsBone(frame[i], "LeftEye")
          /\ frame[i].args[5] = Quat(5 * 80, 0, 0)

-----------------------------------------------------------------------------
(* C13: two calls on one sender with the same snapshot send the same
   messages, in number, order, addresses and arguments, except for the
   argument of /VMC/Ext/T. *)
C13_SameSnapshotSameFrame ==
    (Sent /\ prev_frame # <<>>) =>
        /\ Len(frame) = Len(prev_frame)
        /\ \A i \in 1..Len(frame) :
              IF frame[i].addr = TAddr
              THEN /\ prev_frame[i].addr = TAddr
                   /\ Len(prev_frame[i].args) = Len(frame[i].args)
              ELSE prev_frame[i] = frame[i]

\* two calls at different times with a snapshot that has every field
C13_Witness ==
    /\ Sent
    /\ prev_frame # <<>>
    /\ StepsOf(frame) = 1..9
    /\ prev_frame[2] # frame[2]

(* C14: if the UDP send of a message fails, the failure is caught and
   ignored: no exception reaches the caller of send_tracking_data and the
   remaining messages of the frame, Blend/Apply included, are still sent. *)
C14_SendFailureIgnored ==
    Sent =>
        /\ ~raised
        /\ Len(frame) >= 3
        /\ frame[Len(frame)].addr = BlendApplyAddr

-----------------------------------------------------------------------------
\* no position and no rotation component of a bone message is NaN
FiniteBone(m) ==
    /\ \A k \in 2..4 : m.args[k] # NaN
    /\ m.args[5].pitch # NaN /\ m.args[5].yaw # NaN /\ m.args[5].roll # NaN

(* C15: a message for which a NaN or otherwise non-finite value was computed
   is dropped, never put on the wire, and the other messages of the frame are
   sent in their normal order. *)
C15_NonFiniteDropped ==
    Sent =>
        /\ \A i \in 1..Len(frame) : frame[i].addr = BoneAddr => FiniteBone(frame[i])
        /\ frame[1].addr = OKAddr
        /\ frame[Len(frame)].addr = BlendApplyAddr

-----------------------------------------------------------------------------
(* C16: the value sent in /VMC/Ext/T is never negative, and over the calls
   on one sender it never decreases, whatever the system clock does. *)
C16_SessionClockMonotonic ==
    Sent =>
        /\ frame[2].addr = TAddr
        /\ frame[2].args[1] >= 0
        /\ prev_frame # <<>> => prev_frame[2].args[1] <= frame[2].args[1]

\* the (address, name) pairs of a frame
NamePairs(msgs) ==
    { <<msgs[i].addr, msgs[i].args[1]>> :
        i \in { j \in 1..Len(msgs) : msgs[j].addr \in { BoneAddr, BlendValAddr } } }

\* a snapshot with the fields, entries and feature keys of f, every number
\* replaced by one fixed value
SameShape(f) ==
    [ success |-> f.success,
      euler |-> IF IsNone(f.euler) THEN None ELSE Some(<<0, 0, 0>>),
      translation |-> IF IsNone(f.translation) THEN None ELSE Some(<<0, 0, 0>>),
      eye_state |-> IF IsNone(f.eye_state) THEN None
                    ELSE Some([i \in 1..Len(Val(f.eye_state)) |->
                                  [k \in 1..Len(Val(f.eye_state)[i]) |-> 16]]),
      eye_blink |-> IF IsNone(f.eye_blink) THEN None ELSE Some(<<One, One>>),
      current_features |-> IF IsNone(f.current_features) THEN None
                           ELSE Some([k \in DOMAIN Val(f.current_features) |-> 8]) ]

(* C17: the (address, name) pairs of a frame depend only on success and on
   which fields and feature keys are present, never on the values of those
   fields. *)
C17_NamesIndependentOfValues ==
    Sent =>
        NamePairs(frame) =
            NamePairs(send_tracking_data(Some(SameShape(Val(face))), frame[2].args[1]))

-----------------------------------------------------------------------------
(* The stream: blocks, interleaving, history *)

\* the messages of call id on the wire, in the order they were sent
Block(id) ==
    LET OfCall(w) == w.call = id
        ws == SelectSeq(wire, OfCall)
    IN  [j \in 1..Len(ws) |-> ws[j].msg]

\* call id has returned
Returned(id) == \A t \in Threads : Idle(t) \/ Val(pend[t]).id # id

\* the loop has sent every face of video frame v
VideoDone(v) == v < frame_count \/ (face_num > Len(faces) /\ Idle(1))

\* C18: in the tracking loop send_tracking_data is called exactly once per
\* face the tracker returned for a video frame, in the order of the list, each
\* call with the copy of its face; the messages of a call form one contiguous
\* block of the stream that begins with OK and, once the call has returned,
\* ends with Blend/Apply, so the messages of two faces or of two video frames
\* never interleave.
C18_OneBlockPerFace ==
    /\ \A i \in 1..(Len(wire) - 1) : wire[i].call <= wire[i + 1].call
    /\ \A id \in 1..Len(log) :
          /\ log[id].num = IF id > 1 /\ log[id - 1].video = log[id].video
                           THEN log[id - 1].num + 1 ELSE 1
          /\ log[id].num <= log[id].of
          /\ id > 1 => log[id - 1].video <= log[id].video
          /\ id > 1 => Returned(id - 1) /\ \E i \in 1..Len(wire) : wire[i].call = id - 1
          /\ log[id].video = frame_count =>
                log[id].f = CopyWithBlink(faces[log[id].num])
          /\ VideoDone(log[id].video) =>
                \E last \in id..Len(log) :
                    log[last].video = log[id].video /\ log[last].num = log[id].of
          /\ LET block == Block(id)
             IN  /\ Len(block) > 0 => block[1].addr = OKAddr
                 /\ Returned(id) =>
                       /\ Len(block) = Len(send_tracking_data(Some(log[id].f), 0))
                       /\ block[Len(block)].addr = BlendApplyAddr
                       /\ \A j \in 1..(Len(block) - 1) : block[j].addr # BlendApplyAddr

\* two video frames were processed, one of them with two faces, and every
\* call has returned
C18_Witness ==
    /\ frame_count = 2
    /\ VideoDone(2)
    /\ Len(log) >= 3
    /\ log[1].video = 1
    /\ log[Len(log)].video = 2
    /\ \E id \in 1..Len(log) : log[id].num = 2
    /\ Len(wire) > 0
    /\ wire[Len(wire)].call = Len(log)
    /\ wire[Len(wire)].msg.addr = BlendApplyAddr

\* C19: send_tracking_data takes no lock: while one thread is inside the
\* method, between any two of its messages, another thread can enter it (and
\* so its OK or its Blend/Apply can be sent between two Blend/Val messages of
\* the first).
C19_NoMutualExclusion ==
    \A t \in Threads : \A u \in Threads \ { t } :
        (~Idle(t) /\ Idle(u) /\ Len(log) < MaxThreadCalls) => ENABLED ThreadCall(u)

\* the Blend/Apply or the OK of one call lies between two Blend/Val messages
\* of another call
C19_Witness ==
    \E i \in 1..Len(wire) : \E j \in 1..Len(wire) : \E k \in 1..Len(wire) :
        /\ i < j /\ j < k
        /\ wire[i].call = wire[k].call
        /\ wire[j].call # wire[i].call
        /\ wire[i].msg.addr = BlendValAddr
        /\ wire[k].msg.addr = BlendValAddr
        /\ wire[j].msg.addr \in { BlendApplyAddr, OKAddr }

\* C20: a step of send_tracking_data leaves the sender's ip, port (and so its
\* client) and start_time unchanged and does not modify the snapshot it was
\* given, the tracker's list or the snapshots of earlier calls; and the
\* messages of a call are those of its own snapshot at some clock reading,
\* whatever snapshots were passed before.
C20_NoHistory ==
    /\ [](\A id \in 1..Len(log) :
            \E e \in 0..MaxClock :
                Block(id) = SubSeq(send_tracking_data(Some(log[id].f), e), 1, Len(Block(id))))
    /\ [][wire' # wire =>
            /\ start_time' = start_time
            /\ ip' = ip
            /\ port' = port
            /\ faces' = faces
            /\ \A id \in 1..Len(log) : log'[id] = log[id]
            /\ \A t \in Threads :
                  (~Idle(t) /\ Len(pend'[t]) > 0) => Val(pend'[t]).f = Val(pend[t]).f]_vars

\* two calls with different snapshots have returned
C20_Witness ==
    /\ Len(log) >= 2
    /\ Returned(1)
    /\ Returned(2)
    /\ log[1].f # log[2].f
    /\ Len(Block(2)) > 0
    /\ Block(2)[Len(Block(2))].addr = BlendApplyAddr

-----------------------------------------------------------------------------
(* Features, gaze blend shapes, the call without a snapshot *)

\* the arguments (name, value) of the Blend/Val messages of msgs whose name
\* is in names, in the order of msgs
BlendArgs(msgs, names) ==
    LET Named(m) == m.addr = BlendValAddr /\ m.args[1] \in names
        sel == SelectSeq(msgs, Named)
    IN  [i \in 1..Len(sel) |-> sel[i].args]

\* the snapshot f with the unknown keys taken out of its features
WithoutUnknownKeys(f) ==
    LET features == Val(f.current_features)
    IN  [f EXCEPT !.current_features =
            Some([k \in DOMAIN features \cap FeatureKeys |-> features[k]])]

(* C21: feature keys outside the named set are ignored: the frame of a
   snapshot is, in number, content and order of its messages, the frame of
   the same snapshot without its unknown keys. *)
C21_UnknownKeysIgnored ==
    (Sent /\ ~IsNone(Val(face).current_features)) =>
        LET other == send_tracking_data(Some(WithoutUnknownKeys(Val(face))), frame[2].args[1])
        IN  /\ Len(frame) = Len(other)
            /\ \A i \in 1..Len(frame) : frame[i] = other[i]

\* a frame was sent for features with an unknown key next to a named one
C21_Witness ==
    /\ Sent
    /\ ~IsNone(Val(face).current_features)
    /\ "eye_l" \in DOMAIN Val(Val(face).current_features)
    /\ "mouth_open" \in DOMAIN Val(Val(face).current_features)
    /\ HasBlend("jawOpen")

\* the signed features, and for each the names of its positive and of its
\* negative shape, one per target side
SignedKeys ==
    { "mouth_wide", "mouth_corner_updown_l", "mouth_corner_updown_r",
      "eyebrow_updown_l", "eyebrow_updown_r" }

PositiveShapes(key) ==
    CASE key = "mouth_wide" -> << "mouthSmileLeft", "mouthSmileRight" >>
      [] key = "mouth_corner_updown_l" -> << "mouthSmileLeft" >>
      [] key = "mouth_corner_updown_r" -> << "mouthSmileRight" >>
      [] key = "eyebrow_updown_l" -> << "browInnerUp" >>
      [] key = "eyebrow_updown_r" -> << "browInnerUp" >>

NegativeShapes(key) ==
    CASE key = "mouth_wide" -> << "mouthFrownLeft", "mouthFrownRight" >>
      [] key = "mouth_corner_updown_l" -> << "mouthFrownLeft" >>
      [] key = "mouth_corner_updown_r" -> << "mouthFrownRight" >>
      [] key = "eyebrow_updown_l" -> << "browDownLeft" >>
      [] key = "eyebrow_updown_r" -> << "browDownRight" >>

SignedNames ==
    UNION { { PositiveShapes(k)[i] : i \in 1..Len(PositiveShapes(k)) }
            \cup { NegativeShapes(k)[i] : i \in 1..Len(NegativeShapes(k)) } : k \in SignedKeys }

\* what the signed feature key is to send when present with value v
SignedExpected(features, key) ==
    IF key \in DOMAIN features
    THEN LET v == features[key]
             names == IF v > 0 THEN PositiveShapes(key) ELSE NegativeShapes(key)
             value == IF v > 0 THEN Min(One, v) ELSE Min(One, -v)
         IN  [i \in 1..Len(names) |-> <<names[i], value>>]
    ELSE <<>>

(* C22: each signed feature that is present with value v sends, for each of
   its target sides, exactly one message: the positive shape with min(1, v)
   if v > 0, otherwise the negative shape with min(1, -v); nothing else is
   sent under the names of the signed shapes. *)
C22_SignedFeatures ==
    (Sent /\ ~IsNone(Val(face).current_features)) =>
        LET features == Val(Val(face).current_features)
        IN  BlendArgs(frame, SignedNames) =
                SignedExpected(features, "mouth_wide")
                \o SignedExpected(features, "mouth_corner_updown_l")
                \o SignedExpected(features, "mouth_corner_updown_r")
                \o SignedExpected(features, "eyebrow_updown_l")
                \o SignedExpected(features, "eyebrow_updown_r")

\* a signed feature at 0 and one above 1
C22_Witness ==
    /\ Sent
    /\ ~IsNone(Val(face).current_features)
    /\ Val(Val(face).current_features) = [mouth_wide |-> 0, eyebrow_updown_r |-> 24]
    /\ BlendArgs(frame, SignedNames) =
          << <<"mouthFrownLeft", 0>>, <<"mouthFrownRight", 0>>, <<"browInnerUp", One>> >>

\* mouth_wide and the mouth corner feature key are both present
BothMouth(key) ==
    /\ Sent
    /\ ~IsNone(Val(face).current_features)
    /\ { "mouth_wide", key } \subseteq DOMAIN Val(Val(face).current_features)

(* C23: in a frame where mouth_wide and a mouth corner feature are both
   present, the message of the mouth corner comes after both messages of
   mouth_wide, and the last value sent in the frame under the name the mouth
   corner targets is the mouth corner's value. *)
C23_MouthCornerLast ==
    \A key \in { "mouth_corner_updown_l", "mouth_corner_updown_r" } :
        BothMouth(key) =>
            LET features == Val(Val(face).current_features)
                corner == SignedExpected(features, key)[1]
                wide == SignedExpected(features, "mouth_wide")
                last == CHOOSE c \in 1..Len(frame) :
                            /\ IsBlend(frame[c], corner[1])
                            /\ \A d \in (c + 1)..Len(frame) : ~IsBlend(frame[d], corner[1])
            IN  /\ HasBlend(corner[1])
                /\ frame[last].args = corner
                /\ \A w \in 1..2 :
                      \E p \in 1..(last - 1) :
                          /\ frame[p].addr = BlendValAddr
                          /\ frame[p].args = wide[w]

\* both target mouthSmileLeft, with different values
C23_Witness ==
    /\ BothMouth("mouth_corner_updown_l")
    /\ Val(Val(face).current_features) = [mouth_wide |-> 24, mouth_corner_updown_l |-> 8]
    /\ BlendArgs(frame, { "mouthSmileLeft" }) = << <<"mouthSmileLeft", One>>, <<"mouthSmileLeft", 8>> >>

\* the gaze blend shapes of eye k (1 right, 2 left) for the normalised
\* offsets gx and gy: lower-camel name, upper-camel name, value
GazeTable(k, gx, gy) ==
    IF k = 1
    THEN { [lower |-> "eyeLookOutRight", upper |-> "EyeLookOutRight", value |-> Max(0, gx)],
           [lower |-> "eyeLookInRight", upper |-> "EyeLookInRight", value |-> Max(0, -gx)],
           [lower |-> "eyeLookUpRight", upper |-> "EyeLookUpRight", value |-> Max(0, -gy)],
           [lower |-> "eyeLookDownRight", upper |-> "EyeLookDownRight", value |-> Max(0, gy)] }
    ELSE { [lower |-> "eyeLookInLeft", upper |-> "EyeLookInLeft", value |-> Max(0, gx)],
           [lower |-> "eyeLookOutLeft", upper |-> "EyeLookOutLeft", value |-> Max(0, -gx)],
           [lower |-> "eyeLookUpLeft", upper |-> "EyeLookUpLeft", value |-> Max(0, -gy)],
           [lower |-> "eyeLookDownLeft", upper |-> "EyeLookDownLeft", value |-> Max(0, gy)] }

GazeNamesOf(k) ==
    { r.lower : r \in GazeTable(k, 0, 0) } \cup { r.upper : r \in GazeTable(k, 0, 0) }

(* C24: for each eye whose eye_state entry is used, with gx = (x - 16)/16
   and gy = (y - 16)/16, the frame has eight gaze Blend/Val messages: the
   four lower-camel names, then the same four in upper-camel with the same
   values; right eye Out = max(0, gx), In = max(0, -gx); left eye
   In = max(0, gx), Out = max(0, -gx); both Up = max(0, -gy),
   Down = max(0, gy); so at most one of In/Out and one of Up/Down is not 0. *)
C24_GazeBlendShapes ==
    \A k \in 1..2 :
        (Sent /\ EntryUsable(k)) =>
            LET entry == Val(Val(face).eye_state)[k]
                gx == entry[3] - GazeCenter
                gy == entry[2] - GazeCenter
                gz == BlendArgs(frame, GazeNamesOf(k))
            IN  /\ Len(gz) = 8
                /\ \A i \in 1..4 :
                      \E r \in GazeTable(k, gx, gy) :
                          /\ gz[i] = <<r.lower, r.value>>
                          /\ gz[i + 4] = <<r.upper, r.value>>
                /\ \A i \in 1..4 : \A j \in 1..4 : i # j => gz[i][1] # gz[j][1]
                /\ Cardinality({ i \in 1..2 : gz[i][2] # 0 }) <= 1
                /\ Cardinality({ i \in 3..4 : gz[i][2] # 0 }) <= 1

\* the left eye looks toward positive x and up, the right eye is centred
C24_Witness ==
    /\ Sent
    /\ EntryUsable(1)
    /\ EntryUsable(2)
    /\ Val(Val(face).eye_state) = << CenterEye, <<1, -8, 24, 1>> >>
    /\ BlendArgs(frame, { "eyeLookInLeft", "eyeLookOutLeft", "EyeLookUpLeft" }) =
          << <<"eyeLookInLeft", 8>>, <<"eyeLookOutLeft", 0>>, <<"EyeLookUpLeft", 24>> >>

(* C25: send_tracking_data called with no snapshot sends no message, not
   even OK or Blend/Apply, returns without an exception and leaves the
   sender's ip, port and start_time unchanged. *)
C25_NoSnapshotNoMessage ==
    /\ []((calls = 1 /\ IsNone(face)) => (Len(frame) = 0 /\ ~raised))
    /\ [][(IsNone(face) /\ calls' = 1 /\ now' = now) =>
            /\ Len(frame') = 0
            /\ raised' = raised
            /\ start_time' = start_time
            /\ ip' = ip
            /\ port' = port]_vars

\* the call without a snapshot was made
C25_Witness ==
    /\ calls = 1
    /\ IsNone(face)
    /\ Len(frame) = 0

\* the blink messages of call id
BlinkBlock(id) == BlendArgs(Block(id), BlinkNames)

(* C26: the loop sends a shallow copy of each face, with eye_blink set to
   [1, 1] on the copy where the tracker gave none: the tracker's face is not
   modified, and every frame the loop has sent holds the five blink
   Blend/Val messages, with value 0 when the tracker supplied no blink. *)
C26_BlinkDefaultOnCopy ==
    /\ \A k \in 1..Len(faces) : faces[k] \in LoopFaces
    /\ \A id \in 1..Len(log) :
          /\ ~IsNone(log[id].f.eye_blink)
          /\ Returned(id) =>
                LET blinks == BlinkBlock(id)
                IN  /\ Len(blinks) = 5
                    /\ { blinks[i][1] : i \in 1..5 } = BlinkNames
                    /\ log[id].video = frame_count =>
                          LET given == faces[log[id].num]
                          IN  IF IsNone(given.eye_blink)
                              THEN /\ log[id].f = [given EXCEPT !.eye_blink = Some(<<One, One>>)]
                                   /\ \A i \in 1..5 : blinks[i][2] = 0
                              ELSE log[id].f = given

\* the frame of a face that came without eye_blink has been sent
C26_Witness ==
    \E id \in 1..Len(log) :
        /\ Returned(id)
        /\ log[id].video = frame_count
        /\ IsNone(faces[log[id].num].eye_blink)
        /\ Len(BlinkBlock(id)) = 5
        /\ BlinkBlock(id)[5] = <<"Blink", 0>>

-----------------------------------------------------------------------------
(* The window: subprocesses, buttons, preview threads *)

(* C27: after any sequence of Start Tracking, Stop Tracking and window-close
   events, at most one subprocess launched by the window has not exited. *)
C27_OneTrackingProcess ==
    Cardinality({ p \in 1..Len(processes) : Running(p) }) <= 1

(* C28: the Start Tracking button is disabled exactly when tracking_process
   is not None, the Stop Tracking button is enabled exactly when the Start
   Tracking button is disabled, and a start_tracking that launches nothing
   leaves tracking_process and both buttons unchanged. *)
C28_ButtonsFollowProcess ==
    /\ []((start_btn = "disabled") <=> ~IsNone(tracking_process))
    /\ []((stop_tracking_btn = "normal") <=> (start_btn = "disabled"))
    /\ [][(handler.pc = "launch" /\ handler'.pc = "idle"
              /\ messagebox' \in { "Failed to start tracking", "Tracking is already running!" }
              /\ messagebox' # messagebox) =>
            /\ tracking_process' = tracking_process
            /\ start_btn' = start_btn
            /\ stop_tracking_btn' = stop_tracking_btn]_vars

\* a launch failed, a later one succeeded
C28_Witness ==
    /\ messagebox = "Failed to start tracking"
    /\ ~IsNone(tracking_process)
    /\ start_btn = "disabled"
    /\ stop_tracking_btn = "normal"

(* C29: in every interleaving of the GUI thread and preview_loop, the
   preview thread never calls read() on a capture that has been released,
   and no capture is open when start_tracking launches the subprocess. *)
C29_ReleaseAfterPreviewStopped ==
    /\ \A t \in 1..Len(previews) : previews[t].last # "released"
    /\ handler.pc = "launch" => \A c \in 1..Len(captures) : captures[c] # "open"

(* C30: at most one preview thread is in the body of preview_loop, about to
   read from the camera, at any time, also after stop_preview followed by
   start_preview. *)
C30_OnePreviewThread ==
    Cardinality({ t \in 1..Len(previews) : previews[t].pc = "read" }) <= 1

====
